---- MODULE Spec2Model ----
(***************************************************************************)
(* KMFlowAgent hook DLL: the lock-free SPSC ring buffer (ringbuffer.h) and *)
(* the hook lifecycle around it (hook.c).                                  *)
(*                                                                         *)
(* Two threads: the client thread (the managed process: initialize, read   *)
(* events, health check, shutdown, DLL detach) and the hook thread (the OS *)
(* invoking the low-level keyboard / mouse callbacks).  Every access to a  *)
(* shared location is one step; the 24-byte HookEvent copy is two steps    *)
(* (header, then payload), so a racing copy can be torn.                   *)
(***************************************************************************)
EXTENDS Integers, Sequences, FiniteSets, TLC

\* ---- bounds ----
MaxReq == 3         \* requested capacities 0..MaxReq, lifecycle and concurrent harness
MaxTag == 2         \* events the OS delivers to the hooks
MaxBatch == 2       \* largest maxEvents passed to HookDll_ReadEvents
SpscMaxTag == 5     \* writes issued by the concurrent harness
SpscMaxBatch == 4   \* largest maxEvents passed to RingBuffer_ReadBatch, concurrent harness
SeqMaxReq == 10     \* requested capacities 0..SeqMaxReq in the sequential harness
SeqMaxTag == 20     \* writes issued by the sequential harness
SeqMaxBatch == 20   \* largest maxEvents in the sequential harness
RoundMaxReq == 9     \* small requested capacities 0..RoundMaxReq in the rounding check

\* ---- program constants ----
NULL == 0
HOOK_EVENT_KEYBOARD == 1
HOOK_EVENT_MOUSE == 2
Half == 2 ^ 16       \* a uint32_t is kept as two 16-bit halves

VARIABLES
    g_initialized,   \* hook.c: static volatile BOOL g_initialized
    g_keyboardHook,  \* hook.c: static HHOOK g_keyboardHook (NULL or a handle)
    g_mouseHook,     \* hook.c: static HHOOK g_mouseHook
    osHooks,         \* which hooks the OS still has installed
    rb,              \* hook.c: static RingBuffer g_ringBuffer
    heap,            \* the slot array rb.buffer points to (<<>> when released)
    heapBlocks,      \* number of live blocks on the process heap
    doubleFree,      \* a HeapFree of a block that was not live
    cpc,             \* client thread: position
    cop,             \* client thread: exported function in progress
    cl,              \* client thread: arguments and locals of the call
    outEvents,       \* client thread: the caller's destination array
    ret,             \* client thread: last function returned and its value
    hpc,             \* hook thread: position
    hcb,             \* hook thread: callback in progress
    hl,              \* hook thread: arguments and locals
    nextTag,         \* next event tag the OS will deliver
    written,         \* tags passed to RingBuffer_Write on the current channel, in order
    returned,        \* concatenation of the batches returned from the current channel
    fault,           \* an access to the slot array after it was released
    everFailed       \* some HookDll_Initialize has returned FALSE

lifeVars   == <<g_initialized, g_keyboardHook, g_mouseHook, osHooks>>
bufVars    == <<rb, heap, heapBlocks, doubleFree>>
clientVars == <<cpc, cop, cl, outEvents, ret>>
hookVars   == <<hpc, hcb, hl>>
histVars   == <<nextTag, written, returned, fault, everFailed>>
vars == <<g_initialized, g_keyboardHook, g_mouseHook, osHooks, rb, heap,
          heapBlocks, doubleFree, cpc, cop, cl, outEvents, ret, hpc, hcb, hl,
          nextTag, written, returned, fault, everFailed>>

\* ---- values ----
RECURSIVE BitAnd(_, _)
BitAnd(a, b) ==
    IF a = 0 \/ b = 0 THEN 0
    ELSE (a % 2) * (b % 2) + 2 * BitAnd(a \div 2, b \div 2)

\* HookEvent: header (type, timestamp_ms) and the payload union.
ZeroEvent == [type |-> 0, timestamp_ms |-> 0, data |-> 0]
HookEvent(type, tag) == [type |-> type, timestamp_ms |-> tag, data |-> tag]

\* uint32_t values: [hi, lo], so that the full 32-bit range is representable.
U32(n) == [hi |-> n \div Half, lo |-> n % Half]
U32Int(a) == a.hi * Half + a.lo
U32Less(a, b) == a.hi < b.hi \/ (a.hi = b.hi /\ a.lo < b.lo)

Handle(kind) == IF kind = "keyboard" THEN 1 ELSE 2

ZeroRingBuffer == [buffer |-> NULL, capacity |-> 0, mask |-> 0, head |-> 0, tail |-> 0]

FreshLocals ==
    [req |-> U32(0), capacity |-> U32(0), tail |-> 0, head |-> 0, count |-> 0,
     maxEvents |-> 0, outNull |-> FALSE,
     regs |-> 0, unhooks |-> 0, alloc |-> "none"]

FreshHook ==
    [nCode |-> 0, head |-> 0, nextHead |-> 0, tail |-> 0, evt |-> ZeroEvent,
     writes |-> 0, chained |-> 0]

Init ==
    /\ g_initialized = FALSE
    /\ g_keyboardHook = NULL
    /\ g_mouseHook = NULL
    /\ osHooks = [keyboard |-> FALSE, mouse |-> FALSE]
    /\ rb = ZeroRingBuffer
    /\ heap = <<>>
    /\ heapBlocks = 0
    /\ doubleFree = FALSE
    /\ cpc = "idle"
    /\ cop = "none"
    /\ cl = FreshLocals
    /\ outEvents = <<>>
    /\ ret = [op |-> "none", val |-> 0]
    /\ hpc = "idle"
    /\ hcb = "none"
    /\ hl = FreshHook
    /\ nextTag = 1
    /\ written = <<>>
    /\ returned = <<>>
    /\ fault = "none"
    /\ everFailed = FALSE

\* The client thread returns val from the function in progress.  The detach
\* notification is the last thing the DLL runs.
ClientReturnWith(val, locals) ==
    /\ cpc' = IF cop = "DllMain" THEN "unloaded" ELSE "idle"
    /\ cop' = "none"
    /\ ret' = [op |-> cop, val |-> val]
    /\ cl' = [locals EXCEPT !.req = U32(0), !.capacity = U32(0),
                            !.tail = 0, !.head = 0, !.count = 0]

ClientReturn(val) == ClientReturnWith(val, cl)

\* ---- ringbuffer.h: RingBuffer_Init ----

\* capacity <<= 1 on a uint32_t: the top bit is shifted out
ShiftLeft1(capacity) ==
    [hi |-> (capacity.hi * 2 + capacity.lo \div (Half \div 2)) % Half,
     lo |-> (capacity.lo * 2) % Half]

\* HeapAlloc can be asked for capacity * sizeof(HookEvent) bytes and succeed.
Allocable(capacity) == capacity.hi = 0

\* lines 66-67: while (capacity < requestedCapacity) capacity <<= 1;
RingBuffer_Init_Round ==
    /\ cpc = "i66"
    /\ IF U32Less(cl.capacity, cl.req)
       THEN /\ cl' = [cl EXCEPT !.capacity = ShiftLeft1(cl.capacity)]
            /\ cpc' = "i66"
       ELSE /\ cl' = cl
            /\ cpc' = "i69"
    /\ UNCHANGED <<cop, outEvents, ret>>
    /\ UNCHANGED <<lifeVars, bufVars, hookVars, histVars>>

\* lines 69-78: HeapAlloc(HEAP_ZERO_MEMORY), which may fail, then the fields.
RingBuffer_Init_Alloc_KeepIndices ==
    /\ cpc = "i69"
    /\ \E ok \in (IF Allocable(cl.capacity) THEN BOOLEAN ELSE {FALSE}) :
         IF ok
         THEN /\ rb' = [rb EXCEPT !.buffer = 1, !.capacity = U32Int(cl.capacity),
                                  !.mask = U32Int(cl.capacity) - 1]
              /\ heap' = [i \in 1..U32Int(cl.capacity) |-> ZeroEvent]
              /\ heapBlocks' = heapBlocks + 1
              /\ IF cop = "HookDll_Initialize"
                 THEN /\ cpc' = "h91"
                      /\ cl' = [cl EXCEPT !.alloc = "ok"]
                      /\ UNCHANGED <<cop, ret>>
                 ELSE ClientReturnWith(TRUE, [cl EXCEPT !.alloc = "ok"])
              /\ written' = <<>>
              /\ returned' = <<>>
              /\ UNCHANGED everFailed
         ELSE /\ rb' = [rb EXCEPT !.buffer = NULL]
              /\ UNCHANGED <<heap, heapBlocks>>
              /\ ClientReturnWith(FALSE, [cl EXCEPT !.alloc = "failed"])
              /\ everFailed' = (everFailed \/ cop = "HookDll_Initialize")
              /\ UNCHANGED <<written, returned>>
    /\ UNCHANGED <<doubleFree, outEvents>>
    /\ UNCHANGED <<lifeVars, hookVars, nextTag, fault>>

RingBuffer_Init_Alloc ==
    /\ cpc = "i69"
    /\ \E ok \in (IF Allocable(cl.capacity) THEN BOOLEAN ELSE {FALSE}) :
         IF ok
         THEN /\ rb' = [buffer |-> 1, capacity |-> U32Int(cl.capacity),
                        mask |-> U32Int(cl.capacity) - 1, head |-> 0, tail |-> 0]
              /\ heap' = [i \in 1..U32Int(cl.capacity) |-> ZeroEvent]
              /\ heapBlocks' = heapBlocks + 1
              /\ IF cop = "HookDll_Initialize"
                 THEN /\ cpc' = "h91"
                      /\ cl' = [cl EXCEPT !.alloc = "ok"]
                      /\ UNCHANGED <<cop, ret>>
                 ELSE ClientReturnWith(TRUE, [cl EXCEPT !.alloc = "ok"])
              /\ written' = <<>>
              /\ returned' = <<>>
              /\ UNCHANGED everFailed
         ELSE /\ rb' = [rb EXCEPT !.buffer = NULL]
              /\ UNCHANGED <<heap, heapBlocks>>
              /\ ClientReturnWith(FALSE, [cl EXCEPT !.alloc = "failed"])
              /\ everFailed' = (everFailed \/ cop = "HookDll_Initialize")
              /\ UNCHANGED <<written, returned>>
    /\ UNCHANGED <<doubleFree, outEvents>>
    /\ UNCHANGED <<lifeVars, hookVars, nextTag, fault>>

\* ---- ringbuffer.h: RingBuffer_Destroy (lines 82-89) ----
RingBuffer_Destroy ==
    IF rb.buffer # NULL
    THEN /\ IF heapBlocks = 0
            THEN doubleFree' = TRUE /\ UNCHANGED heapBlocks
            ELSE heapBlocks' = heapBlocks - 1 /\ UNCHANGED doubleFree
         /\ heap' = <<>>
         /\ rb' = [rb EXCEPT !.buffer = NULL]
    ELSE UNCHANGED bufVars

\* ---- ringbuffer.h: RingBuffer_Write (lines 95-110), hook thread ----

\* (i + 1) & rb->mask
NextIndex(i, mask) == BitAnd(i + 1, mask)

\* InterlockedCompareExchange(&dest, exchange, comparand): the stored value
InterlockedCompareExchange(dest, exchange, comparand) ==
    IF dest = comparand THEN exchange ELSE dest

\* The slot array is addressable at index i.
SlotLive(i) == rb.buffer # NULL /\ (i + 1) \in DOMAIN heap

\* After RingBuffer_Write returns: back to the callback, or to the harness.
AfterWrite == IF hcb = "direct" THEN "idle" ELSE "k52"

\* lines 97-98
RingBuffer_Write_LoadHead ==
    /\ hpc = "w97"
    /\ hl' = [hl EXCEPT !.head = rb.head, !.nextHead = NextIndex(rb.head, rb.mask)]
    /\ hpc' = "w101"
    /\ UNCHANGED <<hcb, lifeVars, bufVars, clientVars, histVars>>

\* line 101
RingBuffer_Write_LoadTail ==
    /\ hpc = "w101"
    /\ hl' = [hl EXCEPT !.tail = rb.tail]
    /\ hpc' = "w102"
    /\ UNCHANGED <<hcb, lifeVars, bufVars, clientVars, histVars>>

\* lines 102-105: one compare-and-swap, no retry
RingBuffer_Write_Evict_Skip ==
    /\ hpc = "w102"
    /\ hpc' = "w107a"
    /\ UNCHANGED <<hcb, hl, lifeVars, bufVars, clientVars, histVars>>

RingBuffer_Write_Evict_Retry ==
    /\ hpc = "w102"
    /\ IF hl.nextHead = hl.tail
       THEN IF rb.tail = hl.tail
            THEN rb' = [rb EXCEPT !.tail = NextIndex(hl.tail, rb.mask)] /\ hpc' = "w107a"
            ELSE rb' = rb /\ hpc' = "w102"
       ELSE rb' = rb /\ hpc' = "w107a"
    /\ UNCHANGED <<hcb, hl, heap, heapBlocks, doubleFree>>
    /\ UNCHANGED <<lifeVars, clientVars, histVars>>

RingBuffer_Write_Evict ==
    /\ hpc = "w102"
    /\ IF hl.nextHead = hl.tail
       THEN rb' = [rb EXCEPT !.tail = InterlockedCompareExchange(
                                 rb.tail, NextIndex(hl.tail, rb.mask), hl.tail)]
       ELSE rb' = rb
    /\ hpc' = "w107a"
    /\ UNCHANGED <<hcb, hl, heap, heapBlocks, doubleFree>>
    /\ UNCHANGED <<lifeVars, clientVars, histVars>>

\* line 107, first half: type and timestamp_ms
RingBuffer_Write_StoreHeader ==
    /\ hpc = "w107a"
    /\ LET i == BitAnd(hl.head, rb.mask) IN
         IF SlotLive(i)
         THEN /\ heap' = [heap EXCEPT ![i + 1].type = hl.evt.type,
                                      ![i + 1].timestamp_ms = hl.evt.timestamp_ms]
              /\ hpc' = "w107b"
              /\ UNCHANGED fault
         ELSE /\ fault' = "write"
              /\ hpc' = "crashed"
              /\ UNCHANGED heap
    /\ UNCHANGED <<hcb, hl, rb, heapBlocks, doubleFree>>
    /\ UNCHANGED <<lifeVars, clientVars, nextTag, written, returned, everFailed>>

\* line 107, second half: the payload union
RingBuffer_Write_StorePayload ==
    /\ hpc = "w107b"
    /\ LET i == BitAnd(hl.head, rb.mask) IN
         IF SlotLive(i)
         THEN /\ heap' = [heap EXCEPT ![i + 1].data = hl.evt.data]
              /\ hpc' = "w109"
              /\ UNCHANGED fault
         ELSE /\ fault' = "write"
              /\ hpc' = "crashed"
              /\ UNCHANGED heap
    /\ UNCHANGED <<hcb, hl, rb, heapBlocks, doubleFree>>
    /\ UNCHANGED <<lifeVars, clientVars, nextTag, written, returned, everFailed>>

\* lines 108-109: MemoryBarrier(); InterlockedExchange(&rb->head, nextHead)
RingBuffer_Write_Publish ==
    /\ hpc = "w109"
    /\ rb' = [rb EXCEPT !.head = hl.nextHead]
    /\ hpc' = AfterWrite
    /\ hcb' = IF hcb = "direct" THEN "none" ELSE hcb
    /\ hl' = [FreshHook EXCEPT !.nCode = hl.nCode, !.writes = hl.writes]
    /\ UNCHANGED <<heap, heapBlocks, doubleFree>>
    /\ UNCHANGED <<lifeVars, clientVars, histVars>>

\* ---- ringbuffer.h: RingBuffer_ReadBatch (lines 116-137), client thread ----

\* line 123: tail != head && count < maxEvents
ReadMore_OffByOne(tail, head, count, maxEvents) ==
    tail # head /\ count + 1 < maxEvents

ReadMore(tail, head, count, maxEvents) ==
    tail # head /\ count < maxEvents

\* lines 119-120
RingBuffer_ReadBatch_LoadTail ==
    /\ cpc = "r120"
    /\ cl' = [cl EXCEPT !.count = 0, !.tail = rb.tail]
    /\ cpc' = "r121"
    /\ UNCHANGED <<cop, outEvents, ret>>
    /\ UNCHANGED <<lifeVars, bufVars, hookVars, histVars>>

\* line 121
RingBuffer_ReadBatch_LoadHead ==
    /\ cpc = "r121"
    /\ cl' = [cl EXCEPT !.head = rb.head]
    /\ cpc' = "r123"
    /\ UNCHANGED <<cop, outEvents, ret>>
    /\ UNCHANGED <<lifeVars, bufVars, hookVars, histVars>>

\* lines 123-125: the loop test, then the first half of the slot copy
RingBuffer_ReadBatch_CopyHeader ==
    /\ cpc = "r123"
    /\ IF ReadMore(cl.tail, cl.head, cl.count, cl.maxEvents)
       THEN LET i == BitAnd(cl.tail, rb.mask) IN
              IF SlotLive(i)
              THEN /\ outEvents' = Append(outEvents,
                                     [type |-> heap[i + 1].type,
                                      timestamp_ms |-> heap[i + 1].timestamp_ms,
                                      data |-> 0])
                   /\ cpc' = "r125"
                   /\ UNCHANGED fault
              ELSE /\ fault' = "read"
                   /\ cpc' = "crashed"
                   /\ UNCHANGED outEvents
       ELSE /\ cpc' = "r130"
            /\ UNCHANGED <<outEvents, fault>>
    /\ UNCHANGED <<cop, cl, ret>>
    /\ UNCHANGED <<lifeVars, bufVars, hookVars, nextTag, written, returned, everFailed>>

\* lines 125-127: the second half of the slot copy, count++, tail advances
RingBuffer_ReadBatch_CopyPayload ==
    /\ cpc = "r125"
    /\ LET i == BitAnd(cl.tail, rb.mask) IN
         IF SlotLive(i)
         THEN /\ outEvents' = [outEvents EXCEPT ![cl.count + 1].data = heap[i + 1].data]
              /\ cl' = [cl EXCEPT !.count = cl.count + 1,
                                  !.tail = NextIndex(cl.tail, rb.mask)]
              /\ cpc' = "r123"
              /\ UNCHANGED fault
         ELSE /\ fault' = "read"
              /\ cpc' = "crashed"
              /\ UNCHANGED <<outEvents, cl>>
    /\ UNCHANGED <<cop, ret>>
    /\ UNCHANGED <<lifeVars, bufVars, hookVars, nextTag, written, returned, everFailed>>

\* lines 130-136: publish the read index if anything was copied; return count
RingBuffer_ReadBatch_Publish_Always ==
    /\ cpc = "r130"
    /\ rb' = [rb EXCEPT !.tail = cl.tail]
    /\ returned' = returned \o outEvents
    /\ outEvents' = <<>>
    /\ ClientReturn(cl.count)
    /\ UNCHANGED <<heap, heapBlocks, doubleFree>>
    /\ UNCHANGED <<lifeVars, hookVars, nextTag, written, fault, everFailed>>

RingBuffer_ReadBatch_Publish ==
    /\ cpc = "r130"
    /\ IF cl.count > 0
       THEN rb' = [rb EXCEPT !.tail = cl.tail]
       ELSE rb' = rb
    /\ returned' = returned \o outEvents
    /\ outEvents' = <<>>
    /\ ClientReturn(cl.count)
    /\ UNCHANGED <<heap, heapBlocks, doubleFree>>
    /\ UNCHANGED <<lifeVars, hookVars, nextTag, written, fault, everFailed>>

\* ---- harness: the ring buffer driven directly, one producer, one consumer ----

Harness_Init(maxReq) ==
    /\ cpc = "idle"
    /\ ret.op = "none"
    /\ \E req \in 0..maxReq :
         cl' = [FreshLocals EXCEPT !.req = U32(req), !.capacity = U32(1)]
    /\ cop' = "RingBuffer_Init"
    /\ cpc' = "i66"
    /\ UNCHANGED <<outEvents, ret>>
    /\ UNCHANGED <<lifeVars, bufVars, hookVars, histVars>>

Harness_Write(maxTag) ==
    /\ hpc = "idle"
    /\ rb.buffer # NULL
    /\ nextTag <= maxTag
    /\ hcb' = "direct"
    /\ hl' = [FreshHook EXCEPT !.evt = HookEvent(HOOK_EVENT_KEYBOARD, nextTag)]
    /\ hpc' = "w97"
    /\ nextTag' = nextTag + 1
    /\ written' = Append(written, nextTag)
    /\ UNCHANGED <<returned, fault, everFailed>>
    /\ UNCHANGED <<lifeVars, bufVars, clientVars>>

Harness_ReadBatch(maxBatch) ==
    /\ cpc = "idle"
    /\ rb.buffer # NULL
    /\ \E n \in 0..maxBatch :
         cl' = [FreshLocals EXCEPT !.maxEvents = n]
    /\ cop' = "RingBuffer_ReadBatch"
    /\ outEvents' = <<>>
    /\ cpc' = "r120"
    /\ UNCHANGED ret
    /\ UNCHANGED <<lifeVars, bufVars, hookVars, histVars>>

\* One producer and one consumer, every interleaving of their steps.
SpscWrite == Harness_Write(SpscMaxTag)
SpscRead == Harness_ReadBatch(SpscMaxBatch)
SpscInit == Harness_Init(MaxReq)

NextSpsc ==
    \/ SpscInit
    \/ RingBuffer_Init_Round
    \/ RingBuffer_Init_Alloc
    \/ SpscWrite
    \/ RingBuffer_Write_LoadHead
    \/ RingBuffer_Write_LoadTail
    \/ RingBuffer_Write_Evict
    \/ RingBuffer_Write_StoreHeader
    \/ RingBuffer_Write_StorePayload
    \/ RingBuffer_Write_Publish
    \/ SpscRead
    \/ RingBuffer_ReadBatch_LoadTail
    \/ RingBuffer_ReadBatch_LoadHead
    \/ RingBuffer_ReadBatch_CopyHeader
    \/ RingBuffer_ReadBatch_CopyPayload
    \/ RingBuffer_ReadBatch_Publish

SpecSpsc == Init /\ [][NextSpsc]_vars

\* A step of the producer inside RingBuffer_Write.
NextWriteBody ==
    \/ RingBuffer_Write_LoadHead
    \/ RingBuffer_Write_LoadTail
    \/ RingBuffer_Write_Evict
    \/ RingBuffer_Write_StoreHeader
    \/ RingBuffer_Write_StorePayload
    \/ RingBuffer_Write_Publish

\* The producer thread keeps running; the consumer may stop anywhere, forever.
SpecSpscFair == Init /\ [][NextSpsc]_vars /\ WF_vars(NextWriteBody)

\* No concurrency: all writes complete, then one RingBuffer_ReadBatch.
SeqInit == Harness_Init(SeqMaxReq)
SeqWrite == cpc = "idle" /\ ret.op = "RingBuffer_Init" /\ Harness_Write(SeqMaxTag)
SeqRead == hpc = "idle" /\ ret.op = "RingBuffer_Init" /\ Harness_ReadBatch(SeqMaxBatch)

NextSeq ==
    \/ SeqInit
    \/ RingBuffer_Init_Round
    \/ RingBuffer_Init_Alloc
    \/ SeqWrite
    \/ RingBuffer_Write_LoadHead
    \/ RingBuffer_Write_LoadTail
    \/ RingBuffer_Write_Evict
    \/ RingBuffer_Write_StoreHeader
    \/ RingBuffer_Write_StorePayload
    \/ RingBuffer_Write_Publish
    \/ SeqRead
    \/ RingBuffer_ReadBatch_LoadTail
    \/ RingBuffer_ReadBatch_LoadHead
    \/ RingBuffer_ReadBatch_CopyHeader
    \/ RingBuffer_ReadBatch_CopyPayload
    \/ RingBuffer_ReadBatch_Publish

SpecSeq == Init /\ [][NextSeq]_vars

\* ---- hook.c: the OS side of the hooks ----

\* UnhookWindowsHookEx(kind) returns only when no invocation of that callback
\* is in flight.
UnhookReturns(kind) == hcb # kind

\* The OS delivers an input event to an installed hook, on the hook thread.
OS_Invoke(kind, type) ==
    /\ hpc = "idle"
    /\ cpc # "unloaded"
    /\ osHooks[kind]
    /\ nextTag <= MaxTag
    /\ \E nCode \in {-1, 0} :
         hl' = [FreshHook EXCEPT !.nCode = nCode, !.evt = HookEvent(type, nextTag)]
    /\ hcb' = kind
    /\ hpc' = "k38"
    /\ nextTag' = nextTag + 1
    /\ UNCHANGED <<written, returned, fault, everFailed>>
    /\ UNCHANGED <<lifeVars, bufVars, clientVars>>

OS_InvokeKeyboard == OS_Invoke("keyboard", HOOK_EVENT_KEYBOARD)
OS_InvokeMouse == OS_Invoke("mouse", HOOK_EVENT_MOUSE)

\* Windows silently removes a hook whose callback was too slow; the DLL's
\* handle variables are not told.
OS_Revoke ==
    /\ \E kind \in {"keyboard", "mouse"} :
         /\ osHooks[kind]
         /\ osHooks' = [osHooks EXCEPT ![kind] = FALSE]
    /\ UNCHANGED <<g_initialized, g_keyboardHook, g_mouseHook>>
    /\ UNCHANGED <<bufVars, clientVars, hookVars, histVars>>

\* ---- hook.c: LowLevelKeyboardProc (36-53), LowLevelMouseProc (55-72) ----

\* lines 38 / 57: if (nCode >= 0 && g_initialized), then the event is built
\* and RingBuffer_Write is entered
LowLevelProc_Check_NoFlag(kind) ==
    /\ hpc = "k38"
    /\ hcb = kind
    /\ IF hl.nCode >= 0
       THEN /\ hpc' = "w97"
            /\ hl' = [hl EXCEPT !.writes = hl.writes + 1]
            /\ written' = Append(written, hl.evt.timestamp_ms)
       ELSE /\ hpc' = "k52"
            /\ UNCHANGED <<hl, written>>
    /\ UNCHANGED <<hcb, nextTag, returned, fault, everFailed>>
    /\ UNCHANGED <<lifeVars, bufVars, clientVars>>

LowLevelProc_Check(kind) ==
    /\ hpc = "k38"
    /\ hcb = kind
    /\ IF hl.nCode >= 0 /\ g_initialized
       THEN /\ hpc' = "w97"
            /\ hl' = [hl EXCEPT !.writes = hl.writes + 1]
            /\ written' = Append(written, hl.evt.timestamp_ms)
       ELSE /\ hpc' = "k52"
            /\ UNCHANGED <<hl, written>>
    /\ UNCHANGED <<hcb, nextTag, returned, fault, everFailed>>
    /\ UNCHANGED <<lifeVars, bufVars, clientVars>>

LowLevelKeyboardProc_Check == LowLevelProc_Check("keyboard")
LowLevelMouseProc_Check == LowLevelProc_Check("mouse")

\* lines 52 / 71: return CallNextHookEx(...)
LowLevelProc_CallNext ==
    /\ hpc = "k52"
    /\ hl' = [FreshHook EXCEPT !.writes = hl.writes, !.chained = hl.chained + 1]
    /\ hpc' = "idle"
    /\ hcb' = "none"
    /\ UNCHANGED <<lifeVars, bufVars, clientVars, histVars>>

\* ---- hook.c: HookDll_Initialize (83-109) ----

\* The caller passes bufferCapacity, a uint32_t drawn from reqs.
Call_InitializeFrom(reqs) ==
    /\ cpc = "idle"
    /\ \E req \in reqs : cl' = [FreshLocals EXCEPT !.req = req]
    /\ cop' = "HookDll_Initialize"
    /\ cpc' = "h85"
    /\ UNCHANGED <<outEvents, ret>>
    /\ UNCHANGED <<lifeVars, bufVars, hookVars, histVars>>

Call_Initialize == Call_InitializeFrom({U32(req) : req \in 0..MaxReq})

\* lines 85-88, and line 65 of RingBuffer_Init
HookDll_Initialize_Check_Always ==
    /\ cpc = "h85"
    /\ cl' = [cl EXCEPT !.capacity = U32(1)]
    /\ cpc' = "i66"
    /\ UNCHANGED <<cop, ret>>
    /\ UNCHANGED <<outEvents, lifeVars, bufVars, hookVars, histVars>>

HookDll_Initialize_Check ==
    /\ cpc = "h85"
    /\ IF g_initialized
       THEN ClientReturn(TRUE)
       ELSE /\ cl' = [cl EXCEPT !.capacity = U32(1)]
            /\ cpc' = "i66"
            /\ UNCHANGED <<cop, ret>>
    /\ UNCHANGED <<outEvents, lifeVars, bufVars, hookVars, histVars>>

\* lines 91-92: SetWindowsHookExW(WH_KEYBOARD_LL, ...), which may fail
HookDll_Initialize_HookKeyboard ==
    /\ cpc = "h91"
    /\ \E ok \in BOOLEAN :
         /\ g_keyboardHook' = IF ok THEN Handle("keyboard") ELSE NULL
         /\ osHooks' = [osHooks EXCEPT !.keyboard = ok]
    /\ cl' = [cl EXCEPT !.regs = cl.regs + 1]
    /\ cpc' = "h94"
    /\ UNCHANGED <<g_initialized, g_mouseHook, cop, outEvents, ret>>
    /\ UNCHANGED <<bufVars, hookVars, histVars>>

\* lines 94-95: SetWindowsHookExW(WH_MOUSE_LL, ...), which may fail
HookDll_Initialize_HookMouse ==
    /\ cpc = "h94"
    /\ \E ok \in BOOLEAN :
         /\ g_mouseHook' = IF ok THEN Handle("mouse") ELSE NULL
         /\ osHooks' = [osHooks EXCEPT !.mouse = ok]
    /\ cl' = [cl EXCEPT !.regs = cl.regs + 1]
    /\ cpc' = "h97"
    /\ UNCHANGED <<g_initialized, g_keyboardHook, cop, outEvents, ret>>
    /\ UNCHANGED <<bufVars, hookVars, histVars>>

\* lines 97 and 107-108: both hooks held: the session becomes active
HookDll_Initialize_Commit_Early ==
    /\ cpc = "h97"
    /\ g_initialized' = TRUE
    /\ IF g_keyboardHook = NULL \/ g_mouseHook = NULL
       THEN cpc' = "h99" /\ UNCHANGED <<cop, cl, ret>>
       ELSE ClientReturn(TRUE)
    /\ UNCHANGED <<g_keyboardHook, g_mouseHook, osHooks, outEvents>>
    /\ UNCHANGED <<bufVars, hookVars, histVars>>

HookDll_Initialize_Commit ==
    /\ cpc = "h97"
    /\ IF g_keyboardHook = NULL \/ g_mouseHook = NULL
       THEN /\ cpc' = "h99"
            /\ UNCHANGED <<g_initialized, cop, cl, ret>>
       ELSE /\ g_initialized' = TRUE
            /\ ClientReturn(TRUE)
    /\ UNCHANGED <<g_keyboardHook, g_mouseHook, osHooks, outEvents>>
    /\ UNCHANGED <<bufVars, hookVars, histVars>>

\* line 99: if (g_keyboardHook) UnhookWindowsHookEx(g_keyboardHook);
HookDll_Initialize_RollbackKeyboard_Skip ==
    /\ cpc = "h99"
    /\ cpc' = "h100"
    /\ UNCHANGED <<cop, cl, outEvents, ret>>
    /\ UNCHANGED <<lifeVars, bufVars, hookVars, histVars>>

HookDll_Initialize_RollbackKeyboard ==
    /\ cpc = "h99"
    /\ IF g_keyboardHook # NULL
       THEN /\ UnhookReturns("keyboard")
            /\ osHooks' = [osHooks EXCEPT !.keyboard = FALSE]
            /\ cl' = [cl EXCEPT !.unhooks = cl.unhooks + 1]
       ELSE UNCHANGED <<osHooks, cl>>
    /\ cpc' = "h100"
    /\ UNCHANGED <<g_initialized, g_keyboardHook, g_mouseHook, cop, outEvents, ret>>
    /\ UNCHANGED <<bufVars, hookVars, histVars>>

\* line 100: if (g_mouseHook) UnhookWindowsHookEx(g_mouseHook);
HookDll_Initialize_RollbackMouse ==
    /\ cpc = "h100"
    /\ IF g_mouseHook # NULL
       THEN /\ UnhookReturns("mouse")
            /\ osHooks' = [osHooks EXCEPT !.mouse = FALSE]
            /\ cl' = [cl EXCEPT !.unhooks = cl.unhooks + 1]
       ELSE UNCHANGED <<osHooks, cl>>
    /\ cpc' = "h101"
    /\ UNCHANGED <<g_initialized, g_keyboardHook, g_mouseHook, cop, outEvents, ret>>
    /\ UNCHANGED <<bufVars, hookVars, histVars>>

\* lines 101-102
HookDll_Initialize_ClearHandles_Skip ==
    /\ cpc = "h101"
    /\ cpc' = "h103"
    /\ UNCHANGED <<cop, cl, outEvents, ret>>
    /\ UNCHANGED <<lifeVars, bufVars, hookVars, histVars>>

HookDll_Initialize_ClearHandles ==
    /\ cpc = "h101"
    /\ g_keyboardHook' = NULL
    /\ g_mouseHook' = NULL
    /\ cpc' = "h103"
    /\ UNCHANGED <<g_initialized, osHooks, cop, cl, outEvents, ret>>
    /\ UNCHANGED <<bufVars, hookVars, histVars>>

\* lines 103-104: RingBuffer_Destroy(&g_ringBuffer); return FALSE;
HookDll_Initialize_Fail ==
    /\ cpc = "h103"
    /\ RingBuffer_Destroy
    /\ ClientReturn(FALSE)
    /\ everFailed' = TRUE
    /\ UNCHANGED <<outEvents, lifeVars, hookVars>>
    /\ UNCHANGED <<nextTag, written, returned, fault>>

\* ---- hook.c: HookDll_ReadEvents (119-126) ----

Call_ReadEvents ==
    /\ cpc = "idle"
    /\ \E n \in 0..MaxBatch, null \in BOOLEAN :
         cl' = [FreshLocals EXCEPT !.maxEvents = n, !.outNull = null]
    /\ outEvents' = <<>>
    /\ cop' = "HookDll_ReadEvents"
    /\ cpc' = "e122"
    /\ UNCHANGED ret
    /\ UNCHANGED <<lifeVars, bufVars, hookVars, histVars>>

\* lines 122-125
HookDll_ReadEvents_Check_NoNullTest ==
    /\ cpc = "e122"
    /\ IF ~g_initialized \/ cl.maxEvents = 0
       THEN ClientReturn(0)
       ELSE cpc' = "r120" /\ UNCHANGED <<cop, cl, ret>>
    /\ UNCHANGED outEvents
    /\ UNCHANGED <<lifeVars, bufVars, hookVars, histVars>>

HookDll_ReadEvents_Check ==
    /\ cpc = "e122"
    /\ IF ~g_initialized \/ cl.outNull \/ cl.maxEvents = 0
       THEN ClientReturn(0)
       ELSE cpc' = "r120" /\ UNCHANGED <<cop, cl, ret>>
    /\ UNCHANGED outEvents
    /\ UNCHANGED <<lifeVars, bufVars, hookVars, histVars>>

\* ---- hook.c: HookDll_Shutdown (132-152), also run by DllMain on detach ----

Call_Shutdown ==
    /\ cpc = "idle"
    /\ cl' = FreshLocals
    /\ cop' = "HookDll_Shutdown"
    /\ cpc' = "s134"
    /\ UNCHANGED <<outEvents, ret>>
    /\ UNCHANGED <<lifeVars, bufVars, hookVars, histVars>>

\* lines 175-177: case DLL_PROCESS_DETACH: HookDll_Shutdown();
DllMain_ProcessDetach ==
    /\ cpc = "idle"
    /\ cl' = FreshLocals
    /\ cop' = "DllMain"
    /\ cpc' = "s134"
    /\ UNCHANGED <<outEvents, ret>>
    /\ UNCHANGED <<lifeVars, bufVars, hookVars, histVars>>

\* lines 134-137
HookDll_Shutdown_Check_Always ==
    /\ cpc = "s134"
    /\ g_initialized' = FALSE
    /\ cpc' = "s139"
    /\ UNCHANGED <<cop, cl, ret>>
    /\ UNCHANGED <<g_keyboardHook, g_mouseHook, osHooks, outEvents>>
    /\ UNCHANGED <<bufVars, hookVars, histVars>>

HookDll_Shutdown_Check_DestroyFirst ==
    /\ cpc = "s134"
    /\ IF ~g_initialized
       THEN /\ ClientReturn(0)
            /\ UNCHANGED g_initialized
       ELSE /\ g_initialized' = FALSE
            /\ cpc' = "s151"
            /\ UNCHANGED <<cop, cl, ret>>
    /\ UNCHANGED <<g_keyboardHook, g_mouseHook, osHooks, outEvents>>
    /\ UNCHANGED <<bufVars, hookVars, histVars>>

HookDll_Shutdown_Check ==
    /\ cpc = "s134"
    /\ IF ~g_initialized
       THEN /\ ClientReturn(0)
            /\ UNCHANGED g_initialized
       ELSE /\ g_initialized' = FALSE
            /\ cpc' = "s139"
            /\ UNCHANGED <<cop, cl, ret>>
    /\ UNCHANGED <<g_keyboardHook, g_mouseHook, osHooks, outEvents>>
    /\ UNCHANGED <<bufVars, hookVars, histVars>>

\* lines 139-143
HookDll_Shutdown_UnhookKeyboard ==
    /\ cpc = "s139"
    /\ IF g_keyboardHook # NULL
       THEN /\ UnhookReturns("keyboard")
            /\ osHooks' = [osHooks EXCEPT !.keyboard = FALSE]
            /\ g_keyboardHook' = NULL
            /\ cl' = [cl EXCEPT !.unhooks = cl.unhooks + 1]
       ELSE UNCHANGED <<osHooks, g_keyboardHook, cl>>
    /\ cpc' = "s145"
    /\ UNCHANGED <<g_initialized, g_mouseHook, cop, outEvents, ret>>
    /\ UNCHANGED <<bufVars, hookVars, histVars>>

\* lines 145-149
HookDll_Shutdown_UnhookMouse ==
    /\ cpc = "s145"
    /\ IF g_mouseHook # NULL
       THEN /\ UnhookReturns("mouse")
            /\ osHooks' = [osHooks EXCEPT !.mouse = FALSE]
            /\ g_mouseHook' = NULL
            /\ cl' = [cl EXCEPT !.unhooks = cl.unhooks + 1]
       ELSE UNCHANGED <<osHooks, g_mouseHook, cl>>
    /\ cpc' = "s151"
    /\ UNCHANGED <<g_initialized, g_keyboardHook, cop, outEvents, ret>>
    /\ UNCHANGED <<bufVars, hookVars, histVars>>

\* line 151-152
HookDll_Shutdown_Destroy ==
    /\ cpc = "s151"
    /\ RingBuffer_Destroy
    /\ ClientReturn(0)
    /\ UNCHANGED <<outEvents, lifeVars, hookVars, histVars>>

\* ---- hook.c: HookDll_IsHealthy (160-163) ----

Call_IsHealthy ==
    /\ cpc = "idle"
    /\ cl' = FreshLocals
    /\ cop' = "HookDll_IsHealthy"
    /\ cpc' = "q162"
    /\ UNCHANGED <<outEvents, ret>>
    /\ UNCHANGED <<lifeVars, bufVars, hookVars, histVars>>

\* line 162
HookDll_IsHealthy ==
    /\ cpc = "q162"
    /\ ClientReturn(g_initialized /\ g_keyboardHook # NULL /\ g_mouseHook # NULL)
    /\ UNCHANGED outEvents
    /\ UNCHANGED <<lifeVars, bufVars, hookVars, histVars>>

\* ---- the DLL: the client thread, the hook thread and the OS ----

Next ==
    \/ Call_Initialize
    \/ HookDll_Initialize_Check
    \/ RingBuffer_Init_Round
    \/ RingBuffer_Init_Alloc
    \/ HookDll_Initialize_HookKeyboard
    \/ HookDll_Initialize_HookMouse
    \/ HookDll_Initialize_Commit
    \/ HookDll_Initialize_RollbackKeyboard
    \/ HookDll_Initialize_RollbackMouse
    \/ HookDll_Initialize_ClearHandles
    \/ HookDll_Initialize_Fail
    \/ Call_ReadEvents
    \/ HookDll_ReadEvents_Check
    \/ RingBuffer_ReadBatch_LoadTail
    \/ RingBuffer_ReadBatch_LoadHead
    \/ RingBuffer_ReadBatch_CopyHeader
    \/ RingBuffer_ReadBatch_CopyPayload
    \/ RingBuffer_ReadBatch_Publish
    \/ Call_IsHealthy
    \/ HookDll_IsHealthy
    \/ Call_Shutdown
    \/ DllMain_ProcessDetach
    \/ HookDll_Shutdown_Check
    \/ HookDll_Shutdown_UnhookKeyboard
    \/ HookDll_Shutdown_UnhookMouse
    \/ HookDll_Shutdown_Destroy
    \/ OS_InvokeKeyboard
    \/ OS_InvokeMouse
    \/ OS_Revoke
    \/ LowLevelKeyboardProc_Check
    \/ LowLevelMouseProc_Check
    \/ RingBuffer_Write_LoadHead
    \/ RingBuffer_Write_LoadTail
    \/ RingBuffer_Write_Evict
    \/ RingBuffer_Write_StoreHeader
    \/ RingBuffer_Write_StorePayload
    \/ RingBuffer_Write_Publish
    \/ LowLevelProc_CallNext

Spec == Init /\ [][Next]_vars

\* ---- HookDll_Initialize alone, over the range of uint32_t ----

\* Requests at the top of the range: 2^31 - 1, 2^31, 2^31 + 1, 2^32 - 1.
LargeRequests ==
    {[hi |-> Half \div 2 - 1, lo |-> Half - 1],
     [hi |-> Half \div 2, lo |-> 0],
     [hi |-> Half \div 2, lo |-> 1],
     [hi |-> Half - 1, lo |-> Half - 1]}

RoundRequests == {U32(req) : req \in 0..RoundMaxReq} \cup LargeRequests

Round_Initialize == Call_InitializeFrom(RoundRequests)

\* A step of the client thread inside HookDll_Initialize.
NextInitializeBody ==
    \/ HookDll_Initialize_Check
    \/ RingBuffer_Init_Round
    \/ RingBuffer_Init_Alloc
    \/ HookDll_Initialize_HookKeyboard
    \/ HookDll_Initialize_HookMouse
    \/ HookDll_Initialize_Commit
    \/ HookDll_Initialize_RollbackKeyboard
    \/ HookDll_Initialize_RollbackMouse
    \/ HookDll_Initialize_ClearHandles
    \/ HookDll_Initialize_Fail

NextInitialize == Round_Initialize \/ NextInitializeBody

\* The client thread keeps running once inside the call; the caller is not
\* obliged to call.
SpecInitialize == Init /\ [][NextInitialize]_vars /\ WF_vars(NextInitializeBody)

\* ---- properties of the ring buffer ----

Range(s) == {s[i] : i \in 1..Len(s)}

\* The unread events: the slots from the read index up to the write index.
Window ==
    IF rb.buffer = NULL THEN <<>>
    ELSE [k \in 1..((rb.head - rb.tail) % rb.capacity) |->
            heap[((rb.tail + k - 1) % rb.capacity) + 1]]

UnreadTags == {Window[k].timestamp_ms : k \in 1..Len(Window)}
DeliveredTags == {returned[k].timestamp_ms : k \in 1..Len(returned)}

\* The events passed to RingBuffer_Write, in order.
WrittenEvents == [i \in 1..Len(written) |-> HookEvent(HOOK_EVENT_KEYBOARD, written[i])]

\* C1: with one producer and one consumer, the concatenation of all batches
\* returned is a strictly increasing subsequence of the written sequence: every
\* returned value is exactly one written event, none is returned twice and none
\* is returned after a later-written one.
C1_ReturnedIsIncreasingSubsequence ==
    \A i \in 1..Len(returned) :
        /\ returned[i] \in Range(WrittenEvents)
        /\ \A j \in 1..(i - 1) : returned[j].timestamp_ms < returned[i].timestamp_ms

\* C2: an event leaves the unread window only by being delivered to the
\* consumer or, when it is discarded, by being the oldest unread event at that
\* moment; in particular the consumer's publication of the read index discards
\* nothing that it did not copy.
C2_DiscardsOnlyTheOldestUnread ==
    [][\A t \in UnreadTags \ UnreadTags' :
          \/ t \in DeliveredTags'
          \/ /\ hpc = "w102" /\ hpc' = "w107a"
             /\ Len(Window) > 0 /\ t = Window[1].timestamp_ms]_vars

\* The sequential harness has finished: the writes, then the one read.
SeqDone == cpc = "idle" /\ ret.op = "RingBuffer_ReadBatch"

C4_OverflowKeepsNewest ==
    (SeqDone /\ Len(written) > rb.capacity /\ cl.maxEvents >= rb.capacity)
        => /\ ret.val = rb.capacity - 1
           /\ returned = SubSeq(WrittenEvents,
                                Len(written) - (rb.capacity - 1) + 1, Len(written))

\* The example of the specification: capacity 10 gives 16, 20 writes, readBatch(16).
C4_Witness ==
    /\ SeqDone
    /\ rb.capacity = 16
    /\ Len(written) = 20
    /\ cl.maxEvents = 16
    /\ Len(returned) = 15
    /\ returned[1].timestamp_ms = 6
    /\ returned[15].timestamp_ms = 20

\* ---- properties of the lifecycle ----

\* The client thread returns from op in this step.
Returns(op) == cop = op /\ cop' = "none"

InShutdown == cop \in {"HookDll_Shutdown", "DllMain"}
WritePcs == {"w97", "w101", "w102", "w107a", "w107b", "w109"}

\* C5: when HookDll_Initialize has returned FALSE the session is Uninitialized,
\* no hook is installed at the OS, both handles are NULL and the slot array is
\* not allocated: the state a later HookDll_Initialize starts from and can
\* succeed in.  After an allocation failure no registration was attempted, and
\* after a registration failure every hook that was installed was unhooked.
C5_FailedInitializeLeavesNothing ==
    (cpc = "idle" /\ ret.op = "HookDll_Initialize" /\ ret.val = FALSE)
        => /\ ~g_initialized
           /\ g_keyboardHook = NULL /\ g_mouseHook = NULL
           /\ ~osHooks.keyboard /\ ~osHooks.mouse
           /\ rb.buffer = NULL /\ heap = <<>> /\ heapBlocks = 0
           /\ cl.alloc = "failed" => (cl.regs = 0 /\ cl.unhooks = 0)
           /\ cl.alloc = "ok" => (cl.regs = 2 /\ cl.unhooks < 2)

\* The mouse registration failed after the keyboard hook was installed.
C5_Witness ==
    /\ cpc = "idle"
    /\ ret.op = "HookDll_Initialize"
    /\ ret.val = FALSE
    /\ cl.alloc = "ok"
    /\ cl.regs = 2
    /\ cl.unhooks = 1

\* C6: HookDll_IsHealthy returns TRUE only if the session is Active and both
\* hooks are still installed at the OS.
C6_HealthyOnlyIfHooksInstalled ==
    [][(cpc = "q162" /\ cop' = "none" /\ ret'.val = TRUE)
          => (g_initialized /\ osHooks.keyboard /\ osHooks.mouse)]_vars

\* C7: during HookDll_Shutdown the flag is cleared before either hook is
\* unhooked and the channel is destroyed only after both are unhooked; with
\* UnhookWindowsHookEx waiting for in-flight callbacks, no RingBuffer_Write
\* touches the slot array after it was released (a write in progress always
\* has the slot array allocated), and a callback that reads the flag after the
\* flip writes nothing.
C7_NoWriteAfterDestroy ==
    /\ [](/\ fault = "none"
          /\ hpc \in WritePcs => (rb.buffer # NULL /\ heapBlocks = 1)
          /\ (InShutdown /\ cpc \in {"s139", "s145", "s151"}) => ~g_initialized
          /\ (InShutdown /\ cpc = "s151") =>
                (/\ ~osHooks.keyboard /\ ~osHooks.mouse
                 /\ g_keyboardHook = NULL /\ g_mouseHook = NULL
                 /\ hpc \notin WritePcs))
    /\ [][(hpc = "k38" /\ ~g_initialized /\ hpc' # hpc) => hpc' = "k52"]_vars

\* A keyboard callback is in the middle of RingBuffer_Write while shutdown has
\* already cleared the flag and is about to unhook.
C7_Witness ==
    /\ cop = "HookDll_Shutdown"
    /\ cpc = "s139"
    /\ ~g_initialized
    /\ hcb = "keyboard"
    /\ hpc = "w107b"

\* C8: HookDll_Initialize on an Active session returns TRUE and changes
\* nothing: no allocation, no registration, the handles, the OS hooks, the
\* channel's indices and its slots are as before.
C8_InitializeWhenActiveIsNoOp ==
    [][(cpc = "h85" /\ g_initialized /\ cpc' # cpc)
          => /\ Returns("HookDll_Initialize")
             /\ ret'.val = TRUE
             /\ cl'.regs = 0 /\ cl'.alloc = "none"
             /\ UNCHANGED <<lifeVars, bufVars>>]_vars

\* A second HookDll_Initialize has returned TRUE without allocating, with an
\* unread event in the channel.
C8_Witness ==
    /\ cpc = "idle"
    /\ ret.op = "HookDll_Initialize"
    /\ ret.val = TRUE
    /\ cl.alloc = "none"
    /\ g_initialized
    /\ Len(Window) > 0

\* C9: HookDll_Shutdown on an Uninitialized session (also from DllMain) returns
\* at once: no unhook call, nothing freed, nothing changed; and no block is
\* ever freed twice.
C9_ShutdownWhenUninitializedIsNoOp ==
    /\ [](~doubleFree /\ heapBlocks \in {0, 1})
    /\ [][(cpc = "s134" /\ ~g_initialized /\ cpc' # cpc)
             => /\ Returns("HookDll_Shutdown") \/ Returns("DllMain")
                /\ cl'.unhooks = 0
                /\ UNCHANGED <<lifeVars, bufVars>>]_vars

\* A shutdown that found the session Uninitialized has returned, after an
\* earlier HookDll_Initialize had failed.
C9_Witness ==
    /\ cpc = "idle"
    /\ ret.op = "HookDll_Shutdown"
    /\ cl.unhooks = 0
    /\ everFailed
    /\ ~g_initialized
    /\ heapBlocks = 0

\* C10: the state flag changes only Uninitialized -> Active in the step in
\* which HookDll_Initialize returns TRUE, and Active -> Uninitialized in the
\* first step of a shutdown; HookDll_Initialize returns TRUE exactly when the
\* session is Active afterwards, a failed one was never Active, and a shutdown
\* always returns Uninitialized.
C10_StateMachine ==
    [][/\ (g_initialized' # g_initialized) =>
             \/ /\ g_initialized'
                /\ cpc = "h97"
                /\ Returns("HookDll_Initialize")
                /\ ret'.val = TRUE
             \/ /\ ~g_initialized'
                /\ InShutdown
                /\ cpc = "s134"
       /\ Returns("HookDll_Initialize") =>
             /\ ret'.val = g_initialized'
             /\ ret'.val = FALSE => ~g_initialized
       /\ (Returns("HookDll_Shutdown") \/ Returns("DllMain")) => ~g_initialized'
      ]_vars

\* A shutdown of an Active session has returned, in a run in which an earlier
\* HookDll_Initialize had failed.
C10_Witness ==
    /\ cpc = "idle"
    /\ ret.op = "HookDll_Shutdown"
    /\ cl.unhooks = 2
    /\ everFailed
    /\ ~g_initialized

\* ---- further properties of the ring buffer ----

\* C11: a RingBuffer_ReadBatch whose snapshot found the channel empty (read
\* index equal to write index) copies nothing, stores to neither index and
\* returns 0: every step of such a call leaves rb and the slots as they were.
C11_EmptyReadStoresNothing ==
    [][/\ (cpc \in {"r120", "r121"} /\ cpc' # cpc) => UNCHANGED <<rb, heap>>
       /\ (cpc = "r123" /\ cl.count = 0 /\ cl.tail = cl.head /\ cpc' # cpc)
             => (cpc' = "r130" /\ UNCHANGED <<rb, heap, outEvents, cl>>)
       /\ (cpc = "r130" /\ cl.count = 0 /\ cl.tail = cl.head /\ cpc' # cpc)
             => /\ UNCHANGED <<rb, heap, returned>>
                /\ Returns(cop)
                /\ ret'.val = 0
      ]_vars

\* A read with maxEvents > 0 has returned 0 from a channel that had been
\* written and drained before, while the producer had moved the read index
\* during the call.
C11_Witness ==
    /\ cpc = "idle"
    /\ ret.op = "RingBuffer_ReadBatch"
    /\ ret.val = 0
    /\ cl.maxEvents > 0
    /\ Len(returned) > 0
    /\ rb.tail # rb.head

\* ---- properties of RingBuffer_Init over the range of uint32_t ----

PowersOfTwo16 == {2 ^ k : k \in 0..15}
IsPowerOfTwo(a) ==
    \/ a.hi = 0 /\ a.lo \in PowersOfTwo16
    \/ a.lo = 0 /\ a.hi \in PowersOfTwo16
HalfOf(a) == [hi |-> a.hi \div 2, lo |-> a.lo \div 2 + (a.hi % 2) * (Half \div 2)]

\* c is the smallest power of two that is >= max(1, req)
IsNextPowerOfTwo(c, req) ==
    /\ IsPowerOfTwo(c)
    /\ ~U32Less(c, req)
    /\ c = U32(1) \/ U32Less(HalfOf(c), req)

\* The rounded capacity where the loop of RingBuffer_Init has been left, and
\* the fields of the channel after a successful RingBuffer_Init.
RoundedWhereProduced ==
    /\ cpc = "i69" => IsNextPowerOfTwo(cl.capacity, cl.req)
    /\ cpc = "h91" =>
          /\ IsNextPowerOfTwo(cl.capacity, cl.req)
          /\ rb = [buffer |-> 1, capacity |-> U32Int(cl.capacity),
                   mask |-> U32Int(cl.capacity) - 1, head |-> 0, tail |-> 0]
          /\ Len(heap) = rb.capacity

\* C12: for every requested capacity RingBuffer_Init produces (reaches the
\* allocation with) the smallest power of two >= max(1, requestedCapacity);
\* after a successful call mask = capacity - 1 and both indices are zero; a
\* request of 0 is rounded to 1.
C12_CapacityIsNextPowerOfTwo ==
    /\ []RoundedWhereProduced
    /\ [](cpc = "i66" => <>(cpc = "i69" /\ IsNextPowerOfTwo(cl.capacity, cl.req)))

\* C19: for every uint32_t request the rounding loop keeps a nonzero capacity
\* and is left, so that every HookDll_Initialize call returns.
C19_InitializeAlwaysReturns ==
    /\ [](cpc \in {"i66", "i69"} => cl.capacity # U32(0))
    /\ [](cop = "HookDll_Initialize" => <>(cop = "none"))

\* Slot i lies in the index range [t, h) of a channel of the given capacity.
InIndexRange(i, t, h, capacity) == ((i - t) % capacity) < ((h - t) % capacity)

\* Slot i is one the RingBuffer_ReadBatch in progress will still copy or is
\* copying: within its snapshot, from its current position, within maxEvents.
StillToCopy(i) ==
    /\ cpc \in {"r123", "r125"}
    /\ InIndexRange(i, cl.tail, cl.head, rb.capacity)
    /\ (i - cl.tail) % rb.capacity < cl.maxEvents - cl.count

\* C14: while a RingBuffer_ReadBatch is in progress the producer stores into
\* no slot that the call has snapshotted and not yet finished copying (the
\* slots from the consumer's current position up to the write index it
\* observed), and every event the consumer has copied is an event as it was
\* written.
C14_NoStoreIntoSnapshot ==
    /\ [][(hpc \in {"w107a", "w107b"} /\ hpc' # hpc)
             => ~StillToCopy(BitAnd(hl.head, rb.mask))]_vars
    /\ [](\A i \in 1..Len(returned) : returned[i] \in Range(WrittenEvents))

\* The order of the producer's positions through RingBuffer_Write.
WriteOrder ==
    {<<"idle", "w97">>, <<"w97", "w101">>, <<"w101", "w102">>, <<"w102", "w107a">>,
     <<"w107a", "w107b">>, <<"w107b", "w109">>, <<"w109", "idle">>}

\* C15: every RingBuffer_Write goes through its six steps in order, with no
\* step repeated, publishes the write index it computed and returns, whatever
\* the consumer does and even if the consumer stops forever: with the producer
\* alone scheduled fairly, every write that was entered completes.
C15_WriteCompletes ==
    /\ [][/\ hpc' # hpc => <<hpc, hpc'>> \in WriteOrder
          /\ (hpc = "w109" /\ hpc' # hpc) => rb'.head = hl.nextHead]_vars
    /\ [](hpc \in WritePcs => <>(hpc = "idle"))

\* Three writes have completed while the consumer stood still in the middle
\* of copying its first slot, the read index having been moved under it.
C15_Witness ==
    /\ hpc = "idle"
    /\ Len(written) >= 3
    /\ cpc = "r125"
    /\ cl.count = 0
    /\ rb.tail # cl.tail

\* C18: in a channel of capacity >= 2, when RingBuffer_Write publishes its
\* write index the read index differs from it: the channel is not empty right
\* after a write.
C18_NotEmptyAfterWrite ==
    [][(hpc = "w109" /\ hpc' # hpc /\ rb.capacity >= 2) => rb'.tail # rb'.head]_vars

\* ---- further properties of the lifecycle ----

\* C13: HookDll_ReadEvents returns 0 at once, with the channel's indices and
\* slots and the destination untouched, when the session is not Active, the
\* destination is NULL or maxEvents is 0; otherwise it runs RingBuffer_ReadBatch
\* and returns its count; the value returned is always in 0..maxEvents.
C13_ReadEventsGuards ==
    [][/\ (cpc = "e122" /\ cpc' # cpc) =>
             IF ~g_initialized \/ cl.outNull \/ cl.maxEvents = 0
             THEN /\ Returns("HookDll_ReadEvents")
                  /\ ret'.val = 0
                  /\ UNCHANGED <<rb, heap, outEvents, returned>>
             ELSE cpc' = "r120" /\ cop' = cop /\ UNCHANGED <<rb, heap>>
       /\ Returns("HookDll_ReadEvents") =>
             /\ ret'.val \in 0..cl.maxEvents
             /\ cpc = "r130" => (ret'.val = cl.count /\ ret'.val = Len(outEvents))
      ]_vars

\* A read into a NULL destination has returned 0 while the session is Active
\* and an event is waiting.
C13_Witness ==
    /\ cpc = "idle"
    /\ ret.op = "HookDll_ReadEvents"
    /\ ret.val = 0
    /\ cl.outNull
    /\ cl.maxEvents > 0
    /\ g_initialized
    /\ Len(Window) > 0

\* The resources of a session: the slot array and the two hook handles.
SlotsAllocated == rb.buffer # NULL /\ heap # <<>> /\ heapBlocks = 1
BothHandlesHeld == g_keyboardHook # NULL /\ g_mouseHook # NULL
NothingHeld ==
    /\ rb.buffer = NULL /\ heap = <<>> /\ heapBlocks = 0
    /\ g_keyboardHook = NULL /\ g_mouseHook = NULL

\* C16: whenever no exported function is running (where a caller can observe
\* the session), the session is Active iff the slot array is allocated and
\* both handles are held, and an Uninitialized session holds nothing; at every
\* step, also inside initialize and shutdown, Active implies the slot array
\* is allocated and both handles are non-NULL.
C16_ActiveIffResources ==
    /\ g_initialized => (SlotsAllocated /\ BothHandlesHeld)
    /\ cpc \in {"idle", "unloaded"} =>
          /\ g_initialized <=> (SlotsAllocated /\ BothHandlesHeld)
          /\ ~g_initialized => NothingHeld

\* HookDll_Initialize has succeeded after an earlier one had failed.
C16_Witness ==
    /\ cpc = "idle"
    /\ ret.op = "HookDll_Initialize"
    /\ everFailed
    /\ g_initialized
    /\ SlotsAllocated
    /\ BothHandlesHeld

InCallback == hcb \in {"keyboard", "mouse"}

\* C17: a capture callback that finds the session not Active, or is given a
\* negative nCode, enters no RingBuffer_Write and its steps leave the channel's
\* indices and slots unchanged; one that finds the session Active with
\* nCode >= 0 enters exactly one RingBuffer_Write; every callback leaves
\* through CallNextHookEx, which it has then called exactly once.
C17_CallbackFrame ==
    /\ [][/\ (hpc = "k38" /\ hpc' # hpc) =>
                IF hl.nCode >= 0 /\ g_initialized
                THEN hpc' = "w97" /\ hl'.writes = 1 /\ hl'.chained = 0
                ELSE /\ hpc' = "k52"
                     /\ hl'.writes = 0 /\ hl'.chained = 0
                     /\ UNCHANGED <<rb, heap, written>>
          /\ (InCallback /\ hpc # "idle" /\ hpc' = "idle") =>
                /\ hpc = "k52"
                /\ hl'.chained = 1
                /\ hl'.writes = hl.writes
                /\ hl.writes \in {0, 1}
                /\ hl.nCode < 0 => hl.writes = 0
                /\ UNCHANGED <<rb, heap>>
          /\ (InCallback /\ hpc = "w109" /\ hpc' # hpc) => hpc' = "k52"
         ]_vars
    /\ [](hpc # "crashed")

\* A mouse callback with nCode >= 0 ran between the registration of the mouse
\* hook and the activation of the session, and wrote nothing.
C17_Witness ==
    /\ hcb = "mouse"
    /\ hpc = "k52"
    /\ hl.nCode = 0
    /\ hl.writes = 0
    /\ cop = "HookDll_Initialize"
    /\ cpc = "h97"
    /\ ~g_initialized

\* Tags the OS has delivered that were not written to the current channel:
\* those of earlier sessions and those of callbacks that wrote nothing.
OldTags == (1..(nextTag - 1)) \ Range(written)

\* C20: when HookDll_Initialize succeeds the channel is empty with both
\* indices zero and all slots zeroed; a HookDll_ReadEvents that returns before
\* any callback has written to the new channel returns 0; and no event of an
\* earlier session is ever copied out of or returned from the new channel.
C20_NewSessionStartsEmpty ==
    /\ [][/\ (Returns("HookDll_Initialize") /\ cpc = "h97") =>
                /\ rb'.head = 0 /\ rb'.tail = 0
                /\ \A i \in 1..Len(heap') : heap'[i] = ZeroEvent
                /\ written' = <<>> /\ returned' = <<>>
          /\ (Returns("HookDll_ReadEvents") /\ written = <<>>) =>
                (ret'.val = 0 /\ returned' = <<>>)
         ]_vars
    /\ [](\A i \in 1..Len(returned) :
             returned[i].timestamp_ms \notin OldTags /\ returned[i].data \notin OldTags)
    /\ [](\A i \in 1..Len(outEvents) :
             outEvents[i].timestamp_ms \notin OldTags /\ outEvents[i].data \notin OldTags)

\* The last callback wrote its event to an earlier channel; in the session
\* that is Active now a read with room for events has returned none.
C20_Witness ==
    /\ cpc = "idle"
    /\ ret.op = "HookDll_ReadEvents"
    /\ ret.val = 0
    /\ cl.maxEvents > 0
    /\ ~cl.outNull
    /\ g_initialized
    /\ written = <<>>
    /\ hpc = "idle"
    /\ hl.writes = 1

====
